---- MODULE Spec2Model ----
(***************************************************************************)
(* Model of src/create_file.py: a script that opens ./test.txt in text     *)
(* write mode, writes a fixed chunk until f.tell() reaches target_size,    *)
(* closes the file and then queries its size.                              *)
(*                                                                         *)
(* Strings and file contents are held as run-length ropes: a sequence of   *)
(* segments [unit, reps], each standing for `unit` repeated `reps` times   *)
(* (the shape of the source expression  "..." * 100).  RFlat gives the     *)
(* plain sequence a rope stands for.  Characters are code points, bytes    *)
(* are 0..255.                                                             *)
(***************************************************************************)
EXTENDS Integers, Sequences, FiniteSets, TLC

VARIABLES
    pc,             \* position of the script: the statement about to run
    exc,            \* the exception in flight: "none" or "OSError"
    target_size,    \* line 4
    line,           \* the string literal of line 11
    reps,           \* the repeat count of line 11
    chunk,          \* line 11: the str written by each f.write (a rope of chars)
    f,              \* the file object of line 10: [state, pos]
    disk,           \* the file at file_path_1mb: [exists, data] (data: a rope of bytes)
    free,           \* bytes the filesystem can still take
    pathOk,         \* whether the path can be opened for writing (its parent
                    \* directory exists and the path is writable)
    linesep,        \* os.linesep of the platform, as code points
    actual_size,    \* line 16 (-1: not assigned)
    actual_size_MB, \* line 17 (<<>>: not assigned; else <<whole, remainder>> of /2^20)
    writes,         \* history: f.write calls of this run that returned
    attempts,       \* history: f.write calls of this run that were started
    stats,          \* history: os.path.getsize calls of this run
    disk0           \* history: the file at the path when this run started

vars == <<pc, exc, target_size, line, reps, chunk, f, disk, free, pathOk,
          linesep, actual_size, actual_size_MB, writes, attempts, stats, disk0>>

(***************************************************************************)
(* Bounds of the generic model.                                            *)
(***************************************************************************)
MaxTarget == 4
MaxReps == 2
MaxFree == 3
Plenty == 2000000000

(***************************************************************************)
(* Ropes.                                                                  *)
(***************************************************************************)
RECURSIVE RLen(_)
RLen(r) ==
    IF r = <<>> THEN 0
    ELSE Len(Head(r).unit) * Head(r).reps + RLen(Tail(r))

RECURSIVE Repeat(_, _)
Repeat(s, n) == IF n <= 0 THEN <<>> ELSE s \o Repeat(s, n - 1)

RECURSIVE RFlat(_)
RFlat(r) ==
    IF r = <<>> THEN <<>>
    ELSE Repeat(Head(r).unit, Head(r).reps) \o RFlat(Tail(r))

Front(s) == SubSeq(s, 1, Len(s) - 1)
Last(s) == s[Len(s)]

RCat(a, b) ==
    IF a = <<>> THEN b
    ELSE IF b = <<>> THEN a
    ELSE IF Last(a).unit = Head(b).unit
         THEN Front(a)
              \o <<[unit |-> Head(b).unit, reps |-> Last(a).reps + Head(b).reps]>>
              \o Tail(b)
         ELSE a \o b

RSeg(s, n) == IF n <= 0 \/ s = <<>> THEN <<>> ELSE <<[unit |-> s, reps |-> n]>>

RECURSIVE RPrefix(_, _)
RPrefix(r, k) ==
    IF k <= 0 \/ r = <<>> THEN <<>>
    ELSE LET h == Head(r)
             ul == Len(h.unit)
             total == ul * h.reps
         IN IF k >= total
            THEN RCat(<<h>>, RPrefix(Tail(r), k - total))
            ELSE RCat(RSeg(h.unit, k \div ul),
                      RSeg(SubSeq(h.unit, 1, k % ul), 1))

(***************************************************************************)
(* Python str and the text layer of open(..., "w", encoding="utf-8").      *)
(***************************************************************************)
\* a repetition that is one too long
StrMulOneMore(s, n) == RSeg(s, n + 1)

\* line 11: str * int
StrMul(s, n) == RSeg(s, n)

\* UTF-8 encoding of one code point
UTF8(cp) ==
    IF cp < 128 THEN <<cp>>
    ELSE IF cp < 2048 THEN <<192 + (cp \div 64), 128 + (cp % 64)>>
    ELSE IF cp < 65536
         THEN <<224 + (cp \div 4096), 128 + ((cp \div 64) % 64), 128 + (cp % 64)>>
    ELSE <<240 + (cp \div 262144), 128 + ((cp \div 4096) % 64),
           128 + ((cp \div 64) % 64), 128 + (cp % 64)>>

\* newline=None on a file opened for writing: "\n" becomes os.linesep
TranslateNewline(cp, ls) == IF cp = 10 THEN ls ELSE <<cp>>

RECURSIVE EncodeFrom(_, _)
EncodeFrom(s, i) ==
    IF i > Len(s) THEN <<>> ELSE UTF8(s[i]) \o EncodeFrom(s, i + 1)

\* encoding="utf-8"
EncodeUTF8(s) == EncodeFrom(s, 1)

RECURSIVE TranslateFrom(_, _, _)
TranslateFrom(s, i, ls) ==
    IF i > Len(s) THEN <<>>
    ELSE TranslateNewline(s[i], ls) \o TranslateFrom(s, i + 1, ls)

\* what TextIOWrapper.write makes of a str: newlines translated, then encoded
EncodeStr(s, ls) == EncodeUTF8(TranslateFrom(s, 1, ls))

(***************************************************************************)
(* Inputs.                                                                 *)
(***************************************************************************)
\* line 11: "ABCDEFGHIJKLMNOPQRSTUVWXYZ0123456789\n"
ScriptLine ==
    [i \in 1..37 |-> IF i <= 26 THEN 64 + i ELSE IF i <= 36 THEN 21 + i ELSE 10]
\* code points: "A", "A\n", e-acute (two bytes in UTF-8), the euro sign (three)
\* followed by "\n"
Lines == {<<65>>, <<65, 10>>, <<233>>, <<8364, 10>>}
\* os.linesep: "\n" (POSIX) or "\r\n" (Windows)
LineSeps == {<<10>>, <<13, 10>>}

\* EncodeStr tabulated over the strings of the model (the comparison makes
\* TLC compute the table once instead of at every write)
EncTable ==
    LET t == [p \in (Lines \cup {ScriptLine}) \X LineSeps |-> EncodeStr(p[1], p[2])]
    IN IF t = <<>> THEN <<>> ELSE t

\* the bytes f.write(str) hands to the file
Encode(str, ls) ==
    [i \in 1..Len(str) |-> [unit |-> EncTable[<<str[i].unit, ls>>], reps |-> str[i].reps]]

(***************************************************************************)
(* The file system and the file object.                                    *)
(***************************************************************************)
NoFile == [exists |-> FALSE, data |-> <<>>]
File(data) == [exists |-> TRUE, data |-> data]
NoHandle == [state |-> "none", pos |-> 0]

\* mode "a": the old content is kept
OpenedDataAppend(old) == old

\* mode "w": what the file holds right after open()
OpenedData(old) == <<>>

\* f.tell(): every earlier write has been flushed, so the position is the
\* number of bytes handed to the file
Tell(h) == h.pos

\* a loop that stops one byte early
LoopGuardEarly(pos, T) == pos < T - 1

\* a loop whose comparison is <=
LoopGuardLE(pos, T) == pos <= T

\* line 12: the condition of the while loop
LoopGuard(pos, T) == pos < T

\* a write that loses the last byte it was given
FlushedShort(data, bytes) == RCat(data, RPrefix(bytes, RLen(bytes) - 1))

\* line 13: the file once the bytes of a write have reached it
Flushed(data, bytes) == RCat(data, bytes)

\* os.path.getsize
GetSize(d) == RLen(d.data)

\* line 17: actual_size / (1024 * 1024); a float quotient by a power of two is
\* exact, and is kept as <<whole part, remainder>>
ToMB(n) == <<n \div (1024 * 1024), n % (1024 * 1024)>>

(***************************************************************************)
(* The statements of the script.                                           *)
(***************************************************************************)
\* line 10, open() succeeds: the file is created or truncated
Open ==
    /\ pc = "open"
    /\ pathOk
    /\ disk' = File(OpenedData(disk.data))
    /\ free' = free + RLen(disk.data) - RLen(OpenedData(disk.data))
    /\ f' = [state |-> "open", pos |-> 0]
    /\ pc' = "chunk"
    /\ UNCHANGED <<exc, target_size, line, reps, chunk, pathOk, linesep,
                   actual_size, actual_size_MB, writes, attempts, stats, disk0>>

\* an open() whose error is swallowed: the script goes on to the size query
OpenFailSwallowed ==
    /\ pc = "open"
    /\ ~pathOk
    /\ pc' = "stat"
    /\ disk' = File(<<>>)
    /\ UNCHANGED <<exc, target_size, line, reps, chunk, f, free, pathOk, linesep,
                   actual_size, actual_size_MB, writes, attempts, stats, disk0>>

\* line 10, open() raises: the with block is never entered and nothing below runs
OpenFail ==
    /\ pc = "open"
    /\ ~pathOk
    /\ exc' = "OSError"
    /\ pc' = "failed"
    /\ UNCHANGED <<target_size, line, reps, chunk, f, disk, free, pathOk, linesep,
                   actual_size, actual_size_MB, writes, attempts, stats, disk0>>

\* a loop that writes before it tests (do ... while)
MakeChunkThenWrite ==
    /\ pc = "chunk"
    /\ chunk' = StrMul(line, reps)
    /\ pc' = "write"
    /\ UNCHANGED <<exc, target_size, line, reps, f, disk, free, pathOk, linesep,
                   actual_size, actual_size_MB, writes, attempts, stats, disk0>>

\* line 11
MakeChunk ==
    /\ pc = "chunk"
    /\ chunk' = StrMul(line, reps)
    /\ pc' = "guard"
    /\ UNCHANGED <<exc, target_size, line, reps, f, disk, free, pathOk, linesep,
                   actual_size, actual_size_MB, writes, attempts, stats, disk0>>

\* line 12, the condition holds: the body runs
LoopEnter ==
    /\ pc = "guard"
    /\ LoopGuard(Tell(f), target_size)
    /\ pc' = "write"
    /\ UNCHANGED <<exc, target_size, line, reps, chunk, f, disk, free, pathOk,
                   linesep, actual_size, actual_size_MB, writes, attempts, stats,
                   disk0>>

\* a size query placed inside the with block: the file is still open
LoopExitSkipsClose ==
    /\ pc = "guard"
    /\ ~LoopGuard(Tell(f), target_size)
    /\ pc' = "stat"
    /\ UNCHANGED <<exc, target_size, line, reps, chunk, f, disk, free, pathOk,
                   linesep, actual_size, actual_size_MB, writes, attempts, stats,
                   disk0>>

\* line 12, the condition fails: the with block is left
LoopExit ==
    /\ pc = "guard"
    /\ ~LoopGuard(Tell(f), target_size)
    /\ pc' = "close"
    /\ UNCHANGED <<exc, target_size, line, reps, chunk, f, disk, free, pathOk,
                   linesep, actual_size, actual_size_MB, writes, attempts, stats,
                   disk0>>

\* line 13, the write (and the flush of the next f.tell()) succeeds
Write ==
    /\ pc = "write"
    /\ \E bytes \in {Encode(chunk, linesep)} :
       LET n == RLen(bytes)
       IN /\ n <= free
          /\ disk' = File(Flushed(disk.data, bytes))
          /\ free' = free - n
          /\ f' = [f EXCEPT !.pos = @ + n]
    /\ writes' = writes + 1
    /\ attempts' = attempts + 1
    /\ pc' = "guard"
    /\ UNCHANGED <<exc, target_size, line, reps, chunk, pathOk, linesep,
                   actual_size, actual_size_MB, stats, disk0>>

\* a failed write that removes the partial file
WriteFailCleansUp ==
    /\ pc = "write"
    /\ RLen(Encode(chunk, linesep)) > free
    /\ disk' = NoFile
    /\ free' = free + RLen(disk.data)
    /\ attempts' = attempts + 1
    /\ exc' = "OSError"
    /\ pc' = "close"
    /\ UNCHANGED <<target_size, line, reps, chunk, f, pathOk, linesep,
                   actual_size, actual_size_MB, writes, stats, disk0>>

\* line 13, the filesystem runs out of space: the bytes that fit are on disk
\* and OSError leaves the with block
WriteFail ==
    /\ pc = "write"
    /\ \E bytes \in {Encode(chunk, linesep)} :
       LET n == RLen(bytes)
       IN /\ n > free
          /\ disk' = File(Flushed(disk.data, RPrefix(bytes, free)))
          /\ free' = 0
    /\ attempts' = attempts + 1
    /\ exc' = "OSError"
    /\ pc' = "close"
    /\ UNCHANGED <<target_size, line, reps, chunk, f, pathOk, linesep,
                   actual_size, actual_size_MB, writes, stats, disk0>>

\* f.close() after the loop instead of a with block: skipped by an exception
CloseUnlessError ==
    /\ pc = "close"
    /\ f' = IF exc = "none" THEN [f EXCEPT !.state = "closed"] ELSE f
    /\ pc' = IF exc = "none" THEN "stat" ELSE "failed"
    /\ UNCHANGED <<exc, target_size, line, reps, chunk, disk, free, pathOk,
                   linesep, actual_size, actual_size_MB, writes, attempts, stats,
                   disk0>>

\* the exit of the with block (f.__exit__): the file is closed; an exception
\* in flight goes on and ends the script
Close ==
    /\ pc = "close"
    /\ f' = [f EXCEPT !.state = "closed"]
    /\ pc' = IF exc = "none" THEN "stat" ELSE "failed"
    /\ UNCHANGED <<exc, target_size, line, reps, chunk, disk, free, pathOk,
                   linesep, actual_size, actual_size_MB, writes, attempts, stats,
                   disk0>>

\* line 16 (the file exists whenever this line is reached)
Stat ==
    /\ pc = "stat"
    /\ disk.exists
    /\ actual_size' = GetSize(disk)
    /\ stats' = stats + 1
    /\ pc' = "mib"
    /\ UNCHANGED <<exc, target_size, line, reps, chunk, f, disk, free, pathOk,
                   linesep, actual_size_MB, writes, attempts, disk0>>

\* lines 17-18
Mib ==
    /\ pc = "mib"
    /\ actual_size_MB' = ToMB(actual_size)
    /\ pc' = "done"
    /\ UNCHANGED <<exc, target_size, line, reps, chunk, f, disk, free, pathOk,
                   linesep, actual_size, writes, attempts, stats, disk0>>

Step ==
    \/ Open
    \/ OpenFail
    \/ MakeChunk
    \/ LoopEnter
    \/ LoopExit
    \/ Write
    \/ WriteFail
    \/ Close
    \/ Stat
    \/ Mib

Targets == -1..MaxTarget
\* what is at the path before the first run: nothing, or a file of another origin
PriorFiles == {NoFile, File(RSeg(<<88, 89, 90>>, 1))}
FreeSpace == (0..MaxFree) \cup {Plenty}

\* a fresh process: nothing assigned yet, no file object
Start(T, l, n) ==
    /\ pc = "open"
    /\ exc = "none"
    /\ target_size = T
    /\ line = l
    /\ reps = n
    /\ chunk = <<>>
    /\ f = NoHandle
    /\ actual_size = -1
    /\ actual_size_MB = <<>>
    /\ writes = 0
    /\ attempts = 0
    /\ stats = 0

Init ==
    /\ \E T \in Targets, l \in Lines, n \in 1..MaxReps : Start(T, l, n)
    /\ disk \in PriorFiles
    /\ disk0 = disk
    /\ free \in FreeSpace
    /\ pathOk \in BOOLEAN
    /\ linesep \in LineSeps

\* the program is run again, against whatever the last run left on disk
Invoke(T, l, n) ==
    /\ pc \in {"done", "failed"}
    /\ pc' = "open"
    /\ exc' = "none"
    /\ target_size' = T
    /\ line' = l
    /\ reps' = n
    /\ chunk' = <<>>
    /\ f' = NoHandle
    /\ actual_size' = -1
    /\ actual_size_MB' = <<>>
    /\ writes' = 0
    /\ attempts' = 0
    /\ stats' = 0
    /\ disk0' = disk
    /\ UNCHANGED <<disk, free, pathOk, linesep>>

Next ==
    \/ Step
    \/ \E T \in Targets, l \in Lines, n \in 1..MaxReps : Invoke(T, l, n)

Spec == Init /\ [][Next]_vars

\* one run, which goes on as long as it has a statement to execute
SpecRun == Init /\ [][Step]_vars /\ WF_vars(Step)

(***************************************************************************)
(* The script as written: its own target size and chunk.                   *)
(***************************************************************************)
\* line 4
ScriptTarget == 1000 * 1024 * 1024
\* line 11: * 100
ScriptReps == 100

InitScript ==
    /\ Start(ScriptTarget, ScriptLine, ScriptReps)
    /\ disk \in PriorFiles
    /\ disk0 = disk
    /\ free \in FreeSpace
    /\ pathOk \in BOOLEAN
    /\ linesep \in LineSeps

SpecScript == InitScript /\ [][Step]_vars

(***************************************************************************)
(* Properties.                                                             *)
(***************************************************************************)
\* the bytes one f.write(chunk) puts in the file, and their number
ChunkBytes == Encode(chunk, linesep)
L == RLen(ChunkBytes)
S == GetSize(disk)
\* the with block was left without an exception: generation completed
Generated == f.state = "closed" /\ exc = "none"
CeilDiv(a, b) == (a + b - 1) \div b
IsPrefix(p, q) == Len(p) <= Len(q) /\ SubSeq(q, 1, Len(p)) = p

\* C1: when generation completes without an I/O error and T > 0, the file
\* size S satisfies T <= S < T + L, L being the length in bytes of the chunk
\* as written.
C1_SizeWithinOneChunk ==
    (Generated /\ target_size > 0) => (target_size <= S /\ S < target_size + L)

C1_Witness ==
    pc = "done" /\ target_size > 0 /\ L > 1 /\ S = target_size + L - 1

\* C2 as stated: in the run of the script the chunk is 3800 bytes long, and
\* the generated file has 1,048,576,000 <= S < 1,048,579,800 with S a
\* multiple of 3800.
C2_AsStated ==
    /\ chunk # <<>> => L = 3800
    /\ Generated =>
         (1048576000 <= S /\ S < 1048579800 /\ S % 3800 = 0)

\* the length in bytes of one 37-character line, newline translated
ScriptLineBytes == IF linesep = <<10>> THEN 37 ELSE 38

\* C2, amended: in the run of the script the chunk is 3700 characters long
\* and L bytes long as written, L = 3700 where os.linesep is "\n" and
\* L = 3800 where it is "\r\n"; the generated file has
\* 1,048,576,000 <= S < 1,048,576,000 + L with S a multiple of L.
C2_ScriptRun ==
    /\ chunk # <<>> => (RLen(chunk) = 3700 /\ L = 100 * ScriptLineBytes)
    /\ Generated =>
         /\ 1048576000 <= S
         /\ S < 1048576000 + 100 * ScriptLineBytes
         /\ S % (100 * ScriptLineBytes) = 0

C2_Witness ==
    pc = "done" /\ linesep = <<10>> /\ L = 3700 /\ actual_size = 283399 * 3700

\* C3: writes happen in whole chunks: while the file is open and no write
\* has failed, the write position is writes * L and the file holds the chunk
\* bytes `writes` times; once generated, S is a multiple of L and the content
\* is the chunk bytes repeated S / L times, nothing else.
C3_WholeChunksOnly ==
    /\ (f.state = "open" /\ exc = "none") =>
         /\ Tell(f) = writes * L
         /\ RFlat(disk.data) = Repeat(RFlat(ChunkBytes), writes)
    /\ Generated =>
         /\ S % L = 0
         /\ RFlat(disk.data) = Repeat(RFlat(ChunkBytes), S \div L)

C3_Witness ==
    pc = "done" /\ writes >= 2 /\ L >= 2 /\ S = writes * L

\* the content a run leaves when it starts from no file at all
RECURSIVE FreshRun(_, _, _)
FreshRun(T, bytes, content) ==
    IF LoopGuard(RLen(content), T)
    THEN FreshRun(T, bytes, Flushed(content, bytes))
    ELSE content

\* C4: generation truncates: whatever the file held before the run (nothing,
\* foreign content, the output of an earlier run with the same or another T
\* and chunk), a generated file has the size and content a run against a
\* non-existent file produces.
C4_TruncatesNotAppends ==
    Generated =>
        /\ disk.exists
        /\ RFlat(disk.data)
             = RFlat(FreshRun(target_size, ChunkBytes, <<>>))

C4_Witness ==
    /\ pc = "done"
    /\ disk0.exists
    /\ RLen(disk0.data) > 0
    /\ S > 0
    /\ RFlat(disk0.data) # RFlat(disk.data)

\* C5: when the path cannot be opened the run is at the open or has ended in
\* the failure exit with nothing else done: no file object, the path as it
\* was before the run (no file created), no write started, no size query,
\* no size or MiB value.
C5_OpenFailureEndsRun ==
    ~pathOk =>
        /\ pc \in {"open", "failed"}
        /\ pc = "failed" => exc = "OSError"
        /\ f = NoHandle
        /\ disk = disk0
        /\ attempts = 0 /\ writes = 0 /\ stats = 0
        /\ actual_size = -1 /\ actual_size_MB = <<>>

C5_Witness ==
    pc = "failed" /\ ~pathOk /\ ~disk.exists /\ exc = "OSError"

\* C6: no run is past the with block, or ended, with the file still open.
C6_HandleReleased ==
    pc \in {"stat", "mib", "done", "failed"} => f.state # "open"

C6_Witness ==
    pc = "failed" /\ f.state = "closed" /\ attempts = writes + 1 /\ writes >= 1

\* C7: absent I/O errors the loop ends, and for T > 0 it ends after exactly
\* ceil(T / L) writes, at the smallest multiple of L that is >= T: every run
\* at the loop test leaves the with block, and a run that leaves it without
\* an exception has made ceil(T / L) writes and stands at position
\* ceil(T / L) * L.
C7_LoopTerminates ==
    /\ (pc = "guard") ~> (pc = "close")
    /\ [](pc \in {"guard", "write"} /\ target_size > 0
            => writes <= CeilDiv(target_size, L))
    /\ []((pc = "close" /\ exc = "none" /\ target_size > 0) =>
            /\ writes = CeilDiv(target_size, L)
            /\ Tell(f) = CeilDiv(target_size, L) * L
            /\ Tell(f) >= target_size
            /\ Tell(f) - L < target_size)

C7_Witness ==
    /\ pc = "close" /\ exc = "none"
    /\ writes >= 2
    /\ Tell(f) = target_size

\* C8: once a write has failed, no other write is started, the size query is
\* never made, the chunks written before the failure (and the part of the
\* failed one that fitted) stay on disk, and the run ends with the file closed.
C8_WriteFailureEndsRun ==
    (exc = "OSError" /\ f.state # "none") =>
        /\ pc \in {"close", "failed"}
        /\ pc = "failed" => f.state = "closed"
        /\ attempts = writes + 1
        /\ stats = 0 /\ actual_size = -1 /\ actual_size_MB = <<>>
        /\ disk.exists
        /\ IsPrefix(Repeat(RFlat(ChunkBytes), writes), RFlat(disk.data))
        /\ IsPrefix(RFlat(disk.data), Repeat(RFlat(ChunkBytes), writes + 1))

C8_Witness ==
    pc = "failed" /\ f.state = "closed" /\ writes >= 1 /\ S > writes * L

\* C9: the size is queried once, after the close; the file is not changed
\* once it is closed; the reported size is the write position at loop exit.
C9_LinearSequence ==
    /\ [](stats <= 1)
    /\ [](stats = 1 => (f.state = "closed" /\ pc \in {"mib", "done"}))
    /\ [](pc \in {"mib", "done"} =>
            (stats = 1 /\ actual_size = Tell(f) /\ actual_size = S))
    /\ [](pc = "done" => actual_size_MB = ToMB(Tell(f)))
    /\ [][f.state = "closed" => disk' = disk]_vars

C9_Witness ==
    pc = "done" /\ stats = 1 /\ actual_size > 0 /\ actual_size = Tell(f)

\* C10: the loop test comes before every write: a write is only started
\* below the target; with T <= 0 a run that completes has written nothing
\* and leaves an empty file; with T > 0 it has written at least one chunk.
C10_GuardBeforeWrite ==
    /\ pc = "write" => Tell(f) < target_size
    /\ (Generated /\ target_size <= 0) =>
         (attempts = 0 /\ writes = 0 /\ disk.exists /\ S = 0)
    /\ (Generated /\ target_size > 0) => writes >= 1

C10_Witness ==
    pc = "done" /\ target_size <= 0 /\ RLen(disk0.data) > 0 /\ S = 0

====
